---- MODULE Spec2Model ----
(***************************************************************************)
(* Model of the signature-authenticated request layer of the indexer       *)
(* client: IndexerClient.request and its endpoint methods, the dev-mode    *)
(* fallback of useIndexerPoints, and the referral consumption flow.        *)
(***************************************************************************)
EXTENDS Integers, Sequences, FiniteSets, TLC

(***************************************************************************)
(* Bounds of the model.                                                    *)
(***************************************************************************)
\* number of hook calls started in one run of the points hook
MaxCalls == 2
\* number of wallet-connect attempts in one run of the referral flow
MaxAttempts == 2
\* number of times a referral code is detected or set in one run
MaxStores == 2
\* length of a signature string, in UTF-16 code units
MaxSigLen == 3
\* length of a signed message, in UTF-16 code units
MaxMsgLen == 2
\* number of operations started in one run of a webhooks / templates hook
MaxOps == 2

(***************************************************************************)
(* Values.                                                                 *)
(***************************************************************************)
\* an absent value: undefined / null
None == "<none>"

\* HTTP statuses the transport may answer with (both sides of 200 and 300)
Statuses == {199, 200, 299, 300, 404, 500}

\* response bodies: no body at all, a success body, an error body with an
\* "error" string, with a "message" string only, and with neither
NoBody ==
    [present |-> FALSE, success |-> FALSE, error |-> None, message |-> None,
     data |-> None]
OkBody ==
    [present |-> TRUE, success |-> TRUE, error |-> None, message |-> None,
     data |-> "X"]
ErrBody ==
    [present |-> TRUE, success |-> FALSE, error |-> "boom", message |-> None,
     data |-> None]
MsgBody ==
    [present |-> TRUE, success |-> FALSE, error |-> None, message |-> "denied",
     data |-> None]
BareBody ==
    [present |-> TRUE, success |-> FALSE, error |-> None, message |-> None,
     data |-> None]
Bodies == {NoBody, OkBody, ErrBody, MsgBody, BareBody}

\* What the transport does with one dispatched request:
\*   "response"   an HTTP response arrived (any status)
\*   "noresponse" the request was sent and no response arrived (network
\*                error, timeout): axios sets error.request
\*   "thrown"     something else was thrown (isError: it is an Error)
TransportOutcomes ==
    [kind : {"response"}, status : Statuses, body : Bodies,
     message : {None}, isError : {TRUE}]
    \cup
    [kind : {"noresponse"}, status : {0}, body : {NoBody},
     message : {"Network Error", "timeout of 30000ms exceeded"},
     isError : {TRUE}]
    \cup
    [kind : {"thrown"}, status : {0}, body : {NoBody},
     message : {"bad config"}, isError : BOOLEAN]

\* What the transport does when the signal of axiosConfig is aborted while
\* the request is in flight: it rejects with a CanceledError (an Error with
\* message "canceled"), with error.request set when the request was created
AbortOutcomes ==
    [kind : {"noresponse", "thrown"}, status : {0}, body : {NoBody},
     message : {"canceled"}, isError : {TRUE}]

\* no transport outcome yet
NoOutcome ==
    [kind |-> "none", status |-> 0, body |-> NoBody, message |-> None,
     isError |-> FALSE]

(***************************************************************************)
(* IndexerClient.request                                                   *)
(***************************************************************************)
HeaderNames ==
    {"Content-Type", "Accept", "x-dev", "x-signature", "x-message",
     "x-signer", "x-referral"}

NoHeaders == [h \in HeaderNames |-> None]

\* { ...a, ...b }: the entries of b override those of a
Spread(a, b) == [h \in HeaderNames |-> IF b[h] # None THEN b[h] ELSE a[h]]

\* the headers of axiosConfig
RequestHeaders(dev, callerHeaders) ==
    Spread(
      Spread([NoHeaders EXCEPT !["Content-Type"] = "application/json",
                               !["Accept"] = "application/json"],
             IF dev THEN [NoHeaders EXCEPT !["x-dev"] = "true"] ELSE NoHeaders),
      callerHeaders)

\* axios' default validateStatus: the promise resolves for these statuses
\* and rejects with error.response for every other status
ValidateStatus(status) == status >= 200 /\ status < 300

\* await axios(axiosConfig): how the promise settles for a transport outcome
Axios(outcome) ==
    IF outcome.kind = "response" /\ ValidateStatus(outcome.status)
    THEN [settled |-> "fulfilled", hasResponse |-> TRUE, hasRequest |-> TRUE,
          status |-> outcome.status, body |-> outcome.body,
          message |-> None, isError |-> TRUE]
    ELSE [settled |-> "rejected",
          hasResponse |-> (outcome.kind = "response"),
          hasRequest |-> (outcome.kind \in {"response", "noresponse"}),
          status |-> outcome.status, body |-> outcome.body,
          message |-> (IF outcome.kind = "response"
                       THEN "Request failed with status code"
                       ELSE outcome.message),
          isError |-> outcome.isError]

NoEnvelope ==
    [ok |-> FALSE, status |-> 0, data |-> NoBody, success |-> FALSE]

Returned(envelope) ==
    [tag |-> "return", envelope |-> envelope, message |-> None]

Thrown(message) ==
    [tag |-> "throw", envelope |-> NoEnvelope, message |-> message]

\* ResolvedEnvelope with success true for status 200 only
ResolvedEnvelopeSuccess200(r) ==
    [ok |-> (r.status >= 200 /\ r.status < 300), status |-> r.status,
     data |-> r.body, success |-> (r.status = 200)]

\* the envelope built on the resolved-response path

ResolvedEnvelope(r) ==
    [ok |-> (r.status >= 200 /\ r.status < 300), status |-> r.status,
     data |-> r.body, success |-> (r.status >= 200 /\ r.status < 300)]

\* the envelope built on the error-with-response path
ErrorEnvelope(r) ==
    [ok |-> FALSE, status |-> r.status, data |-> r.body, success |-> FALSE]

\* Request with an error status thrown like a transport failure
RequestThrowsOnHttpError(outcome) ==
    LET r == Axios(outcome) IN
    IF r.settled = "fulfilled" THEN Returned(ResolvedEnvelope(r))
    ELSE Thrown("Indexer API request failed: " \o
                (IF r.isError THEN r.message ELSE "Unknown error"))

\* Request with a transport failure wrapped into an envelope of status 0
RequestWrapsTransportFailure(outcome) ==
    LET r == Axios(outcome) IN
    IF r.settled = "fulfilled" THEN Returned(ResolvedEnvelope(r))
    ELSE IF r.hasResponse \/ r.hasRequest
         THEN Returned(ErrorEnvelope(r))
         ELSE Thrown("Indexer API request failed: " \o
                     (IF r.isError THEN r.message ELSE "Unknown error"))

\* Request with the transport's message dropped from what it throws
RequestGenericMessage(outcome) ==
    LET r == Axios(outcome) IN
    IF r.settled = "fulfilled" THEN Returned(ResolvedEnvelope(r))
    ELSE IF r.hasResponse
         THEN Returned(ErrorEnvelope(r))
         ELSE Thrown("Indexer API request failed")

\* the try/catch around await axios(axiosConfig)
Request(outcome) ==
    LET r == Axios(outcome) IN
    IF r.settled = "fulfilled" THEN Returned(ResolvedEnvelope(r))
    ELSE IF r.hasResponse \/ r.hasRequest
         THEN IF r.hasResponse
              THEN Returned(ErrorEnvelope(r))
              ELSE Thrown("Indexer API request failed: " \o r.message)
         ELSE Thrown("Indexer API request failed: " \o
                     (IF r.isError THEN r.message ELSE "Unknown error"))

(***************************************************************************)
(* IndexerClient.createAuthHeaders                                         *)
(*                                                                         *)
(* A JavaScript string is a sequence of UTF-16 code units; a header value  *)
(* is the string the units of the sequence spell.                          *)
(***************************************************************************)
CR == "\r"
LF == "\n"

\* one half of a surrogate pair; a high surrogate followed by a low one is
\* one character, any other occurrence is a lone surrogate
HiSurrogate == "U+D83D"
LoSurrogate == "U+DE00"
\* a character outside ASCII (two bytes in UTF-8)
EAcute == "U+00E9"

SeqsUpTo(S, n) == UNION {[1 .. k -> S] : k \in 0 .. n}

SignatureUnits == {"a", CR, LF}
MessageUnits == {"a", "%", EAcute, HiSurrogate, LoSurrogate}

Signatures == SeqsUpTo(SignatureUnits, MaxSigLen)
Messages == SeqsUpTo(MessageUnits, MaxMsgLen)

\* IndexerUserAuth values
Credentials ==
    [signature : Signatures, message : Messages, signer : {"0xabc"}]

NoAuth == [signature |-> <<>>, message |-> <<>>, signer |-> None]

\* the string a sequence of units spells
RECURSIVE Join(_)
Join(units) == IF units = <<>> THEN "" ELSE Head(units) \o Join(Tail(units))

\* StripCRLF with a pattern that lacks the g flag: the first match only
RECURSIVE StripFirstCRLF(_)
StripFirstCRLF(signature) ==
    IF signature = <<>> THEN <<>>
    ELSE IF Head(signature) \in {CR, LF} THEN Tail(signature)
    ELSE <<Head(signature)>> \o StripFirstCRLF(Tail(signature))

\* auth.signature.replace(/[\r\n]/g, '')
RECURSIVE StripCRLF(_)
StripCRLF(signature) ==
    IF signature = <<>> THEN <<>>
    ELSE IF Head(signature) \in {CR, LF} THEN StripCRLF(Tail(signature))
    ELSE <<Head(signature)>> \o StripCRLF(Tail(signature))

\* what a call that may throw evaluates to
Value(v) == [threw |-> FALSE, value |-> v]
URIError == [threw |-> TRUE, value |-> <<>>]

\* the escape sequence of one character: its UTF-8 bytes as %XX, or the
\* character itself when it is unreserved
Escape(unit) ==
    IF unit = "%" THEN <<"%", "2", "5">>
    ELSE IF unit = EAcute THEN <<"%", "C", "3", "%", "A", "9">>
    ELSE <<unit>>

PairEscape == <<"%", "F", "0", "%", "9", "F", "%", "9", "8", "%", "8", "0">>

\* encodeURIComponent(message): URIError for a lone surrogate
RECURSIVE EncodeURIComponent(_)
EncodeURIComponent(message) ==
    IF message = <<>> THEN Value(<<>>)
    ELSE IF Head(message) = LoSurrogate THEN URIError
    ELSE IF Head(message) = HiSurrogate
         THEN IF Len(message) >= 2 /\ message[2] = LoSurrogate
              THEN LET rest == EncodeURIComponent(SubSeq(message, 3, Len(message)))
                   IN IF rest.threw THEN URIError
                      ELSE Value(PairEscape \o rest.value)
              ELSE URIError
    ELSE LET rest == EncodeURIComponent(Tail(message))
         IN IF rest.threw THEN URIError
            ELSE Value(Escape(Head(message)) \o rest.value)

\* decodeURIComponent(header), as the indexer applies it to x-message: each
\* %XX is one byte, and the bytes are read as UTF-8
HexDigits == {"0", "2", "3", "5", "8", "9", "A", "C", "F"}

RECURSIVE PercentDecode(_)
PercentDecode(header) ==
    IF header = <<>> THEN Value(<<>>)
    ELSE IF Head(header) # "%"
         THEN LET rest == PercentDecode(Tail(header))
              IN IF rest.threw THEN URIError
                 ELSE Value(<<Head(header)>> \o rest.value)
    ELSE IF Len(header) >= 3 /\ header[2] \in HexDigits /\ header[3] \in HexDigits
         THEN LET rest == PercentDecode(SubSeq(header, 4, Len(header)))
              IN IF rest.threw THEN URIError
                 ELSE Value(<<header[2] \o header[3]>> \o rest.value)
    ELSE URIError

RECURSIVE Utf8Decode(_)
Utf8Decode(bytes) ==
    LET then(units, n) ==
            LET rest == Utf8Decode(SubSeq(bytes, n + 1, Len(bytes)))
            IN IF rest.threw THEN URIError ELSE Value(units \o rest.value)
    IN
    IF bytes = <<>> THEN Value(<<>>)
    ELSE IF Head(bytes) = "25" THEN then(<<"%">>, 1)
    ELSE IF Head(bytes) = "C3"
         THEN IF Len(bytes) >= 2 /\ bytes[2] = "A9"
              THEN then(<<EAcute>>, 2) ELSE URIError
    ELSE IF Head(bytes) = "F0"
         THEN IF Len(bytes) >= 4 /\ SubSeq(bytes, 2, 4) = <<"9F", "98", "80">>
              THEN then(<<HiSurrogate, LoSurrogate>>, 4) ELSE URIError
    ELSE IF Head(bytes) \in {"A9", "9F", "98", "80"} THEN URIError
    ELSE then(<<Head(bytes)>>, 1)

DecodeURIComponent(header) ==
    LET bytes == PercentDecode(header)
    IN IF bytes.threw THEN URIError ELSE Utf8Decode(bytes.value)

\* EncodeURIComponent applied to its own result
EncodeTwice(message) ==
    LET once == EncodeURIComponent(message)
    IN IF once.threw THEN URIError ELSE EncodeURIComponent(once.value)

\* the header value of the message: encodeURIComponent(auth.message)
MessageHeader(message) == EncodeURIComponent(message)

\* createAuthHeaders(auth): the three headers, or the URIError thrown while
\* the object literal is evaluated
CreateAuthHeaders(auth) ==
    LET encoded == MessageHeader(auth.message) IN
    IF encoded.threw THEN [threw |-> TRUE, headers |-> NoHeaders]
    ELSE [threw |-> FALSE,
          headers |-> [NoHeaders EXCEPT
                         !["x-signature"] = Join(StripCRLF(auth.signature)),
                         !["x-message"] = Join(encoded.value),
                         !["x-signer"] = auth.signer]]

(***************************************************************************)
(* Endpoint methods of IndexerClient                                       *)
(***************************************************************************)
\* how a promise settled: with a value (a response body) or with an Error
Fulfilled(value) == [state |-> "fulfilled", value |-> value, message |-> None]
Rejected(message) == [state |-> "rejected", value |-> NoBody, message |-> message]
Pending == [state |-> "pending", value |-> NoBody, message |-> None]

\* (response.data as any)?.error || 'Unknown error'
ErrorString(data) ==
    IF data.present /\ data.error # None THEN data.error ELSE "Unknown error"

\* EndpointResult without the check of response.ok
EndpointResultUnchecked(failure, outcome) ==
    LET res == Request(outcome) IN
    IF res.tag = "throw" THEN Rejected(res.message)
    ELSE Fulfilled(res.envelope.data)

\* the body shared by the endpoint methods: await this.get(...), throw on
\* !response.ok, return response.data
EndpointResult(failure, outcome) ==
    LET res == Request(outcome) IN
    IF res.tag = "throw" THEN Rejected(res.message)
    ELSE IF ~res.envelope.ok
         THEN Rejected(failure \o ": " \o ErrorString(res.envelope.data))
         ELSE Fulfilled(res.envelope.data)

GetPointsLeaderboard(outcome) ==
    EndpointResult("Failed to get points leaderboard", outcome)

GetPointsSiteStats(outcome) ==
    EndpointResult("Failed to get site stats", outcome)

GetWalletAccounts(outcome) ==
    EndpointResult("Failed to get wallet accounts", outcome)

\* JSON.stringify(response.data): undefined for no body
JsonStringify(data) ==
    IF ~data.present THEN None
    ELSE IF data.error # None THEN "{\"success\":false,\"error\":\"boom\"}"
    ELSE IF data.message # None THEN "{\"success\":false,\"message\":\"denied\"}"
    ELSE IF data.success THEN "{\"success\":true,\"data\":\"X\"}"
    ELSE "{\"success\":false}"

\* getReferralCode: data?.error || data?.message || JSON.stringify(data)
\*                  || `HTTP ${response.status}`
ReferralErrorString(data, status) ==
    IF data.present /\ data.error # None THEN data.error
    ELSE IF data.present /\ data.message # None THEN data.message
    ELSE IF JsonStringify(data) # None THEN JsonStringify(data)
    ELSE "HTTP " \o ToString(status)

GetReferralCode(outcome) ==
    LET res == Request(outcome) IN
    IF res.tag = "throw" THEN Rejected(res.message)
    ELSE IF ~res.envelope.ok
         THEN Rejected("Failed to get referral code: " \o
                       ReferralErrorString(res.envelope.data, res.envelope.status))
         ELSE Fulfilled(res.envelope.data)

\* the endpoint methods: the HTTP method each uses, whether it sends
\* createAuthHeaders(auth), and the text of the Error it throws on !response.ok
Endpoint(name, verb, auth, failure) ==
    [name |-> name, verb |-> verb, auth |-> auth, failure |-> failure]

Endpoints ==
    {Endpoint("validateUsername", "GET", FALSE, "Failed to validate username"),
     Endpoint("getMessage", "GET", FALSE, "Failed to get message"),
     Endpoint("getPointsLeaderboard", "GET", FALSE, "Failed to get points leaderboard"),
     Endpoint("getPointsSiteStats", "GET", FALSE, "Failed to get site stats"),
     Endpoint("getWalletAccounts", "GET", TRUE, "Failed to get wallet accounts"),
     Endpoint("getDelegatedTo", "GET", TRUE, "Failed to get delegation"),
     Endpoint("getDelegatedFrom", "GET", TRUE, "Failed to get delegators"),
     Endpoint("createNonce", "POST", TRUE, "Failed to create nonce"),
     Endpoint("getNonce", "GET", TRUE, "Failed to get nonce"),
     Endpoint("getEntitlement", "GET", TRUE, "Failed to get entitlement"),
     Endpoint("getPointsBalance", "GET", TRUE, "Failed to get points balance"),
     Endpoint("getReferralCode", "POST", TRUE, "Failed to get referral code"),
     Endpoint("getReferralStats", "POST", FALSE, "Failed to get referral stats"),
     Endpoint("getWalletNames", "GET", TRUE, "Failed to get wallet names"),
     Endpoint("resolveNameToAddress", "GET", FALSE, "Failed to resolve name"),
     Endpoint("createMailTemplate", "POST", TRUE, "Failed to create template"),
     Endpoint("getMailTemplates", "GET", TRUE, "Failed to get templates"),
     Endpoint("getMailTemplate", "GET", TRUE, "Failed to get template"),
     Endpoint("updateMailTemplate", "PUT", TRUE, "Failed to update template"),
     Endpoint("deleteMailTemplate", "DELETE", TRUE, "Failed to delete template")}

NoEndpoint == Endpoint(None, None, FALSE, None)

\* what the promise of an endpoint method settles with
EndpointMethodResult(endpoint, outcome) ==
    IF endpoint.name = "getReferralCode" THEN GetReferralCode(outcome)
    ELSE EndpointResult(endpoint.failure, outcome)

(***************************************************************************)
(* State.                                                                  *)
(***************************************************************************)
VARIABLES
    \* one IndexerClient and the request it is executing
    rqDev,       \* this.dev, set by the constructor
    rqPc,        \* "idle", "inflight", "returned", "thrown"
    rqConfig,    \* axiosConfig of the request in flight
    rqOutcome,   \* what the transport did with that request
    rqResult,    \* what request() returned or threw
    \* one mounted useIndexerPoints hook
    ptDev,                 \* the dev argument of the last render
    ptDevModeArg,          \* the devMode argument of the last render
    ptCtxDevMode,          \* contextConfig?.devMode of the last render
    ptLeaderboardDevMode,  \* resolvedDevMode closed over by getPointsLeaderboard
    ptSiteStatsDevMode,    \* resolvedDevMode closed over by getPointsSiteStats
    ptIsLoading,           \* useState isLoading
    ptError,               \* useState error
    ptCalls,               \* the calls made through the hook, by number
    ptNext,                \* how many calls were started
    \* the referral record and the wallet-connect flow that consumes it
    rfStored,    \* the code in persistent storage, None when there is none
    rfGen,       \* how many times a code was stored (detected or set)
    rfOp,        \* the last operation, its argument and what it returned
    rfDevMode,   \* devMode of the accounts hook the flow calls
    rfAttempts,  \* the wallet-connect attempts, by number
    rfNext,      \* how many attempts were started
    \* one call of a signature-protected endpoint method, up to its dispatch
    auAuth,      \* the IndexerUserAuth passed to the method
    auPc,        \* "idle", "built", "threw", "sent"
    auHeaders,   \* what createAuthHeaders returned
    auConfig,    \* the headers of axiosConfig of the request dispatched
    \* one client (its dev flag is rqDev) and the endpoint method it executes
    epPc,        \* "idle", "inflight", "done"
    epCall,      \* the method called and its arguments
    epConfig,    \* axiosConfig of the request the method dispatched
    epOutcome,   \* what the transport did with that request
    epLog,       \* what the call wrote to the console
    epResult,    \* how the promise of the method settled
    epSent,      \* how many transport requests the call dispatched
    \* one mounted useIndexerMailWebhooks or useIndexerMailTemplates hook
    mhHook,      \* "webhooks" or "templates"
    mhItems,     \* webhooks / templates: the list last fetched, or None
    mhItem,      \* webhook / template: the id of the current one, or None
    mhIsLoading, \* isLoading
    mhError,     \* error: a message or None
    mhCalls,     \* the operations in flight, by number
    mhNext,      \* how many operations were started
    mhLast       \* the operation that settled last, and how

rqVars == <<rqDev, rqPc, rqConfig, rqOutcome, rqResult>>

ptVars == <<ptDev, ptDevModeArg, ptCtxDevMode, ptLeaderboardDevMode,
            ptSiteStatsDevMode, ptIsLoading, ptError, ptCalls, ptNext>>

rfVars == <<rfStored, rfGen, rfOp, rfDevMode, rfAttempts, rfNext>>

auVars == <<auAuth, auPc, auHeaders, auConfig>>

epVars == <<epPc, epCall, epConfig, epOutcome, epLog, epResult, epSent>>

mhVars == <<mhHook, mhItems, mhItem, mhIsLoading, mhError, mhCalls, mhNext,
            mhLast>>

vars == <<rqVars, ptVars, rfVars, auVars, epVars, mhVars>>

\* what the actions of one component leave alone
notRq == <<ptVars, rfVars, auVars, epVars, mhVars>>
notPt == <<rqVars, rfVars, auVars, epVars, mhVars>>
notRf == <<rqVars, ptVars, auVars, epVars, mhVars>>
notAu == <<rqVars, ptVars, rfVars, epVars, mhVars>>
notEp == <<rqVars, ptVars, rfVars, auVars, mhVars>>
notMh == <<rqVars, ptVars, rfVars, auVars, epVars>>

(***************************************************************************)
(* IndexerClient.request as a process                                      *)
(***************************************************************************)
Methods == {"GET", "POST", "PUT", "DELETE", "PATCH"}

\* headers a caller may pass in options.headers
CallerHeaderChoices ==
    {NoHeaders,
     [NoHeaders EXCEPT !["x-signature"] = "sig", !["x-message"] = "msg",
                       !["x-signer"] = "0xabc"],
     [NoHeaders EXCEPT !["x-dev"] = "false"],
     [NoHeaders EXCEPT !["x-dev"] = "true"]}

\* signal: whether the caller passed an AbortSignal in options.signal
NoConfig == [method |-> None, headers |-> NoHeaders, signal |-> FALSE]

\* no request was made
RqIdle ==
    /\ rqPc = "idle"
    /\ rqConfig = NoConfig
    /\ rqOutcome = NoOutcome
    /\ rqResult = Thrown(None)

\* request(): build axiosConfig and dispatch it
RequestDispatch(method, callerHeaders, signal) ==
    /\ rqPc \in {"idle", "returned", "thrown"}
    /\ rqPc' = "inflight"
    /\ rqConfig' = [method |-> method,
                    headers |-> RequestHeaders(rqDev, callerHeaders),
                    signal |-> signal]
    /\ rqOutcome' = NoOutcome
    /\ rqResult' = Thrown(None)
    /\ UNCHANGED <<rqDev, notRq>>

\* request(): the transport call settles
RequestSettle(outcome) ==
    /\ rqPc = "inflight"
    /\ rqOutcome' = outcome
    /\ rqResult' = Request(outcome)
    /\ rqPc' = IF rqResult'.tag = "return" THEN "returned" ELSE "thrown"
    /\ UNCHANGED <<rqDev, rqConfig, notRq>>

\* the caller aborts the signal it passed while the request is in flight:
\* the transport call is aborted and request() continues in its catch
RequestAbort(outcome) ==
    /\ rqPc = "inflight"
    /\ rqConfig.signal
    /\ rqOutcome' = outcome
    /\ rqResult' = Request(outcome)
    /\ rqPc' = IF rqResult'.tag = "return" THEN "returned" ELSE "thrown"
    /\ UNCHANGED <<rqDev, rqConfig, notRq>>

(***************************************************************************)
(* A signature-protected endpoint method, from its call to the dispatch    *)
(***************************************************************************)
\* the method was not called
AuIdle ==
    /\ auPc = "idle"
    /\ auHeaders = NoHeaders
    /\ auConfig = NoHeaders

\* the method evaluates this.createAuthHeaders(auth); a URIError ends the call
AuthCreateHeaders ==
    LET created == CreateAuthHeaders(auAuth) IN
    /\ auPc = "idle"
    /\ auPc' = IF created.threw THEN "threw" ELSE "built"
    /\ auHeaders' = created.headers
    /\ UNCHANGED <<auAuth, auConfig, notAu>>

\* this.get(url, { headers }): request() merges them into axiosConfig
AuthDispatch ==
    /\ auPc = "built"
    /\ auPc' = "sent"
    /\ auConfig' = RequestHeaders(rqDev, auHeaders)
    /\ UNCHANGED <<auAuth, auHeaders, notAu>>

(***************************************************************************)
(* useIndexerPoints                                                        *)
(***************************************************************************)
\* IndexerMockData.getLeaderboard / getSiteStats
MockLeaderboard ==
    [present |-> TRUE, success |-> TRUE, error |-> None, message |-> None,
     data |-> "mock-leaderboard"]
MockSiteStats ==
    [present |-> TRUE, success |-> TRUE, error |-> None, message |-> None,
     data |-> "mock-site-stats"]
MockData(fn) == IF fn = "leaderboard" THEN MockLeaderboard ELSE MockSiteStats

\* what the transport answers to the hook's requests: a success, or no
\* response at all (the backend is unreachable)
PointsOutcomes ==
    {o \in TransportOutcomes :
        \/ o.kind = "response" /\ o.status = 200 /\ o.body = OkBody
        \/ o.kind = "noresponse" /\ o.message = "Network Error"}

CallIds == 1 .. MaxCalls

NoCall ==
    [fn |-> None, pc |-> "none", devMode |-> FALSE, resolvedDevMode |-> FALSE,
     client |-> Pending, result |-> Pending,
     abortTimer |-> "none", rejectTimer |-> "none", first |-> None,
     settles |-> 0, mockCalls |-> 0]

\* const resolvedDevMode = devMode || contextConfig?.devMode || false
ResolvedDevMode(devMode, ctxDevMode) == devMode \/ ctxDevMode

\* useCallback(fn, deps): the closure of this render when a dependency
\* changed, the cached closure otherwise
UseCallback(depsChanged, fresh, cached) == IF depsChanged THEN fresh ELSE cached

\* the hook after its first render, whatever its arguments were
PtMounted ==
    /\ ptLeaderboardDevMode = ResolvedDevMode(ptDevModeArg, ptCtxDevMode)
    /\ ptSiteStatsDevMode = ResolvedDevMode(ptDevModeArg, ptCtxDevMode)
    /\ ptIsLoading = FALSE
    /\ ptError = None
    /\ ptCalls = [c \in CallIds |-> NoCall]
    /\ ptNext = 0

\* the component renders again with new arguments or a new context value;
\* indexerClient is re-created when dev changes (useMemo [resolvedEndpointUrl, dev])
Render(dev, devMode, ctxDevMode) ==
    /\ <<dev, devMode, ctxDevMode>> # <<ptDev, ptDevModeArg, ptCtxDevMode>>
    /\ ptDev' = dev
    /\ ptDevModeArg' = devMode
    /\ ptCtxDevMode' = ctxDevMode
    /\ ptLeaderboardDevMode' =
         UseCallback(dev # ptDev \/ ResolvedDevMode(devMode, ctxDevMode)
                                      # ResolvedDevMode(ptDevModeArg, ptCtxDevMode),
                     ResolvedDevMode(devMode, ctxDevMode), ptLeaderboardDevMode)
    /\ ptSiteStatsDevMode' =
         UseCallback(dev # ptDev \/ devMode # ptDevModeArg,
                     ResolvedDevMode(devMode, ctxDevMode), ptSiteStatsDevMode)
    /\ UNCHANGED <<ptIsLoading, ptError, ptCalls, ptNext, notPt>>

\* the start of getPointsLeaderboard / getPointsSiteStats, up to the await:
\* setIsLoading(true), setError(null), in devMode the two timers, the client call
StartCall(fn, devMode) ==
    /\ ptNext < MaxCalls
    /\ ptNext' = ptNext + 1
    /\ ptIsLoading' = TRUE
    /\ ptError' = None
    /\ ptCalls' = [ptCalls EXCEPT ![ptNext + 1] =
         [fn |-> fn, pc |-> IF devMode THEN "racing" ELSE "awaiting",
          devMode |-> devMode,
          resolvedDevMode |-> ResolvedDevMode(ptDevModeArg, ptCtxDevMode),
          client |-> Pending, result |-> Pending,
          abortTimer |-> IF devMode THEN "armed" ELSE "none",
          rejectTimer |-> IF devMode THEN "armed" ELSE "none",
          first |-> None, settles |-> 0, mockCalls |-> 0]]
    /\ UNCHANGED <<ptDev, ptDevModeArg, ptCtxDevMode, ptLeaderboardDevMode,
                   ptSiteStatsDevMode, notPt>>

CallGetPointsLeaderboard == StartCall("leaderboard", ptLeaderboardDevMode)

CallGetPointsSiteStats == StartCall("siteStats", ptSiteStatsDevMode)

\* DevModeSettle with the result of the race dropped: mock data whatever won
DevModeSettleAlwaysMock(call, race) ==
    [call EXCEPT !.pc = "done", !.result = Fulfilled(MockData(call.fn)),
                 !.settles = @ + 1, !.mockCalls = @ + 1]

\* the devMode branch after the await: Promise.race settled as race
\*   fulfilled: clearTimeout(timeoutId); return result
\*   rejected:  setError(null); return IndexerMockData...
DevModeSettle(call, race) ==
    IF race.state = "fulfilled"
    THEN [call EXCEPT !.pc = "done", !.result = race,
                      !.settles = @ + 1,
                      !.abortTimer = IF @ = "armed" THEN "cleared" ELSE @]
    ELSE [call EXCEPT !.pc = "done", !.result = Fulfilled(MockData(call.fn)),
                      !.settles = @ + 1, !.mockCalls = @ + 1]

DevModeError(race, error) == IF race.state = "rejected" THEN None ELSE error

\* NormalSettle of a hook that substitutes mock data without devMode
NormalSettleWithMock(call, r) ==
    IF r.state = "fulfilled"
    THEN [call EXCEPT !.pc = "done", !.result = r, !.settles = @ + 1]
    ELSE [call EXCEPT !.pc = "done", !.result = Fulfilled(MockData(call.fn)),
                      !.settles = @ + 1, !.mockCalls = @ + 1]

\* the normal branch after the await: return result, or setError and rethrow
NormalSettle(call, r) ==
    [call EXCEPT !.pc = "done", !.result = r, !.settles = @ + 1]

NormalError(r, error) == IF r.state = "rejected" THEN r.message ELSE error

\* RaceOpen for a race that lets a later promise settle it again
RaceOpenAfterSettle(call) == call.pc \in {"racing", "done"}

\* Promise.race: the first promise to settle decides; later ones are ignored
RaceOpen(call) == call.pc = "racing"

ClientResult(fn, outcome) ==
    IF fn = "leaderboard" THEN GetPointsLeaderboard(outcome)
    ELSE GetPointsSiteStats(outcome)

\* the client call of call c settles
ClientSettles(c, outcome) ==
    LET call == ptCalls[c]
        r == ClientResult(call.fn, outcome)
        seen == [call EXCEPT !.client = r,
                             !.first = IF @ = None THEN "client" ELSE @]
    IN
    /\ call.pc # "none"
    /\ call.client.state = "pending"
    /\ IF call.pc = "awaiting"
       THEN /\ ptCalls' = [ptCalls EXCEPT ![c] = NormalSettle(seen, r)]
            /\ ptError' = NormalError(r, ptError)
            /\ ptIsLoading' = FALSE
       ELSE IF RaceOpen(call)
       THEN /\ ptCalls' = [ptCalls EXCEPT ![c] = DevModeSettle(seen, r)]
            /\ ptError' = DevModeError(r, ptError)
            /\ ptIsLoading' = FALSE
       ELSE /\ ptCalls' = [ptCalls EXCEPT ![c] = seen]
            /\ UNCHANGED <<ptError, ptIsLoading>>
    /\ UNCHANGED <<ptDev, ptDevModeArg, ptCtxDevMode, ptLeaderboardDevMode,
                   ptSiteStatsDevMode, ptNext, notPt>>

\* timers fire in the order they were set: within a call the abort timer
\* first, and the timers of an earlier call before those of a later one
EarlierTimersDone(c) ==
    \A d \in CallIds : d < c =>
        ptCalls[d].abortTimer # "armed" /\ ptCalls[d].rejectTimer # "armed"

\* setTimeout(() => controller.abort(), 2000): the controller's signal is
\* passed to nothing
AbortTimerFires(c) ==
    /\ ptCalls[c].abortTimer = "armed"
    /\ EarlierTimersDone(c)
    /\ ptCalls' = [ptCalls EXCEPT ![c].abortTimer = "fired"]
    /\ UNCHANGED <<ptDev, ptDevModeArg, ptCtxDevMode, ptLeaderboardDevMode,
                   ptSiteStatsDevMode, ptIsLoading, ptError, ptNext, notPt>>

\* setTimeout(() => reject(new Error('DevMode timeout')), 2000)
RejectTimerFires(c) ==
    LET call == ptCalls[c]
        seen == [call EXCEPT !.rejectTimer = "fired",
                             !.first = IF @ = None THEN "timer" ELSE @]
        r == Rejected("DevMode timeout")
    IN
    /\ call.rejectTimer = "armed"
    /\ call.abortTimer # "armed"
    /\ EarlierTimersDone(c)
    /\ IF RaceOpen(call)
       THEN /\ ptCalls' = [ptCalls EXCEPT ![c] = DevModeSettle(seen, r)]
            /\ ptError' = DevModeError(r, ptError)
            /\ ptIsLoading' = FALSE
       ELSE /\ ptCalls' = [ptCalls EXCEPT ![c] = seen]
            /\ UNCHANGED <<ptError, ptIsLoading>>
    /\ UNCHANGED <<ptDev, ptDevModeArg, ptCtxDevMode, ptLeaderboardDevMode,
                   ptSiteStatsDevMode, ptNext, notPt>>

\* clearError()
ClearError ==
    /\ ptError # None
    /\ ptError' = None
    /\ UNCHANGED <<ptDev, ptDevModeArg, ptCtxDevMode, ptLeaderboardDevMode,
                   ptSiteStatsDevMode, ptIsLoading, ptCalls, ptNext, notPt>>

(***************************************************************************)
(* useIndexerReferralConsumption and the documented wallet-connect flow    *)
(***************************************************************************)
Codes == {"A", "B"}

AttemptIds == 1 .. MaxAttempts

\* the operations of the hook on the stored record
\* consumeReferralCode(): returns the stored code and leaves it stored
ConsumeDestructive(stored) == [ret |-> stored, stored |-> None]

ConsumeReferralCode(stored) == [ret |-> stored, stored |-> stored]

\* clearReferralCode(): deletes the stored code
ClearKeeps(stored) == stored

ClearReferralCode(stored) == None

\* setReferralCode(code): stores code, whatever was stored
SetKeepsPending(stored, code) == IF stored = None THEN code ELSE stored

SetReferralCode(stored, code) == code

\* DetectReferralCode of a hook that keeps a code that is still stored
DetectKeepsStored(stored, urlCode) == IF stored = None THEN urlCode ELSE stored

\* the mount effect: a ?referral= parameter of the entry URL is saved to
\* storage and removed from the URL
DetectReferralCode(stored, urlCode) == urlCode

HasPendingCode == rfStored # None

OpRecord(name, arg, ret, before) ==
    [name |-> name, arg |-> arg, ret |-> ret, before |-> before]

NoAttempt ==
    [pc |-> "none", code |-> None, gen |-> 0, xReferral |-> None,
     status |-> 0, result |-> Pending, cleared |-> FALSE]

\* no code stored, no attempt made
RfEmpty ==
    /\ rfStored = None
    /\ rfGen = 0
    /\ rfOp = OpRecord("mount", None, None, None)
    /\ rfAttempts = [a \in AttemptIds |-> NoAttempt]
    /\ rfNext = 0

\* what the backend answers to GET /wallets/:walletAddress/accounts
AccountsOutcomes ==
    {o \in TransportOutcomes :
        \/ o.kind = "response" /\ o.status = 200 /\ o.body = OkBody
        \/ o.kind = "response" /\ o.status = 500 /\ o.body = ErrBody
        \/ o.kind = "noresponse" /\ o.message = "Network Error"}

\* IndexerMockData.getWalletAccounts
MockWalletAccounts ==
    [present |-> TRUE, success |-> TRUE, error |-> None, message |-> None,
     data |-> "mock-accounts"]

\* XReferral of a method that never adds the header
XReferralDropped(referralCode) == None

\* IndexerClient.getWalletAccounts: if (referralCode) headers['x-referral'] = referralCode
XReferral(referralCode) ==
    IF referralCode = None \/ referralCode = "" THEN None ELSE referralCode

\* the mutationFn of the accounts hook: the client's result, or in devMode
\* mock data for a failed call
AccountsHookResult(devMode, r) ==
    IF r.state = "rejected" /\ devMode
    THEN Fulfilled(MockWalletAccounts)
    ELSE r

\* handleWalletConnect: if (accounts?.success && referralCode) clearReferralCode()
ShouldClear(result, referralCode) ==
    /\ result.state = "fulfilled"
    /\ result.value.present
    /\ result.value.success
    /\ referralCode # None

\* the application loads with ?referral=code in its URL
DetectReferral(code) ==
    /\ rfGen < MaxStores
    /\ rfStored' = DetectReferralCode(rfStored, code)
    /\ rfGen' = rfGen + 1
    /\ rfOp' = OpRecord("detect", code, None, rfStored)
    /\ UNCHANGED <<rfDevMode, rfAttempts, rfNext, notRf>>

\* the application calls setReferralCode(code)
ManualSet(code) ==
    /\ rfGen < MaxStores
    /\ rfStored' = SetReferralCode(rfStored, code)
    /\ rfGen' = rfGen + 1
    /\ rfOp' = OpRecord("set", code, None, rfStored)
    /\ UNCHANGED <<rfDevMode, rfAttempts, rfNext, notRf>>

\* the application calls consumeReferralCode() outside a connect attempt
Peek ==
    /\ rfStored' = ConsumeReferralCode(rfStored).stored
    /\ rfOp' = OpRecord("consume", None, ConsumeReferralCode(rfStored).ret, rfStored)
    /\ UNCHANGED <<rfGen, rfDevMode, rfAttempts, rfNext, notRf>>

\* handleWalletConnect up to the await: consumeReferralCode(), then
\* getWalletAccounts(walletAddress, auth, referralCode) is dispatched
ConnectStart ==
    LET consumed == ConsumeReferralCode(rfStored) IN
    /\ rfNext < MaxAttempts
    /\ rfNext' = rfNext + 1
    /\ rfStored' = consumed.stored
    /\ rfOp' = OpRecord("consume", None, consumed.ret, rfStored)
    /\ rfAttempts' = [rfAttempts EXCEPT ![rfNext + 1] =
         [pc |-> "calling", code |-> consumed.ret,
          gen |-> IF consumed.ret = None THEN 0 ELSE rfGen,
          xReferral |-> XReferral(consumed.ret),
          status |-> 0, result |-> Pending, cleared |-> FALSE]]
    /\ UNCHANGED <<rfGen, rfDevMode, notRf>>

\* handleWalletConnect after the await: the call settled; clear on success
ConnectSettles(a, outcome) ==
    LET att == rfAttempts[a]
        result == AccountsHookResult(rfDevMode, GetWalletAccounts(outcome))
        clear == ShouldClear(result, att.code)
    IN
    /\ att.pc = "calling"
    /\ rfAttempts' = [rfAttempts EXCEPT ![a] =
         [att EXCEPT !.pc = "done", !.status = outcome.status,
                     !.result = result, !.cleared = clear]]
    /\ rfStored' = IF clear THEN ClearReferralCode(rfStored) ELSE rfStored
    /\ rfOp' = IF clear THEN OpRecord("clear", None, None, rfStored)
               ELSE OpRecord("response", None, None, rfStored)
    /\ UNCHANGED <<rfGen, rfDevMode, rfNext, notRf>>

(***************************************************************************)
(* The endpoint methods of one IndexerClient, called one after the other   *)
(***************************************************************************)
\* credentials passed to the signature-protected methods: a plain one, one
\* with a line break in the signature and reserved characters in the
\* message, and one whose message has a lone surrogate
EpCredentials ==
    {[signature |-> <<"a">>, message |-> <<"a">>, signer |-> "0xabc"],
     [signature |-> <<"a", CR, LF>>, message |-> <<"%", EAcute>>,
      signer |-> "0xabc"],
     [signature |-> <<"a">>, message |-> <<HiSurrogate>>, signer |-> "0xabc"]}

\* the referralCode argument of getWalletAccounts: absent, empty, a code
ReferralArgs == {None, "", "A"}

\* one console.log / console.error call: its label, and the headers, the
\* credential and the text among its arguments
LogEntry(tag, headers, auth, text) ==
    [tag |-> tag, headers |-> headers, auth |-> auth, text |-> text]

\* what the method logs before it builds its headers
MethodLog(endpoint, auth) ==
    IF endpoint.name = "getWalletAccounts"
    THEN {LogEntry("getWalletAccounts called with", NoHeaders, auth, None)}
    ELSE IF endpoint.name = "getReferralCode"
    THEN {LogEntry("getReferralCode called with", NoHeaders, auth, None)}
    ELSE {}

\* request(): console.log('[IndexerClient] Making request:', {url, method, headers})
RequestLog(headers) == {LogEntry("Making request", headers, NoAuth, None)}

\* request(): console.error('[IndexerClient] Network error details:', ...)
NetworkErrorLog(outcome) ==
    LET r == Axios(outcome) IN
    IF r.settled = "rejected" /\ ~r.hasResponse /\ r.hasRequest
    THEN {LogEntry("Network error details", NoHeaders, NoAuth, r.message)}
    ELSE {}

\* getReferralCode: its response log and, on !response.ok, its error log
ReferralLog(endpoint, outcome) ==
    LET res == Request(outcome) IN
    IF endpoint.name # "getReferralCode" \/ res.tag = "throw" THEN {}
    ELSE {LogEntry("getReferralCode response", NoHeaders, NoAuth,
                   JsonStringify(res.envelope.data))}
         \cup
         (IF res.envelope.ok THEN {}
          ELSE {LogEntry("getReferralCode failed", NoHeaders, NoAuth,
                         ReferralErrorString(res.envelope.data,
                                             res.envelope.status))})

NoCallArgs == [endpoint |-> NoEndpoint, auth |-> NoAuth, referralCode |-> None]

\* no method was called
EpIdle ==
    /\ epPc = "idle"
    /\ epCall = NoCallArgs
    /\ epConfig = NoConfig
    /\ epOutcome = NoOutcome
    /\ epLog = {}
    /\ epResult = Pending
    /\ epSent = 0

\* the headers the method passes to get/post/put/delete
MethodHeaders(endpoint, auth, referralCode) ==
    LET created == IF endpoint.auth THEN CreateAuthHeaders(auth)
                   ELSE [threw |-> FALSE, headers |-> NoHeaders]
    IN
    IF created.threw THEN created
    ELSE [threw |-> FALSE,
          headers |-> IF endpoint.name = "getWalletAccounts"
                      THEN [created.headers EXCEPT
                              !["x-referral"] = XReferral(referralCode)]
                      ELSE created.headers]

\* an endpoint method is called: it runs up to the await of the transport
\* call, or ends with the URIError of createAuthHeaders
EndpointCall(endpoint, auth, referralCode) ==
    LET built == MethodHeaders(endpoint, auth, referralCode)
        headers == RequestHeaders(rqDev, built.headers)
    IN
    /\ epPc \in {"idle", "done"}
    /\ endpoint.auth <=> auth # NoAuth
    /\ endpoint.name # "getWalletAccounts" => referralCode = None
    /\ epCall' = [endpoint |-> endpoint, auth |-> auth,
                  referralCode |-> referralCode]
    /\ epOutcome' = NoOutcome
    /\ IF built.threw
       THEN /\ epPc' = "done"
            /\ epConfig' = NoConfig
            /\ epLog' = MethodLog(endpoint, auth)
            /\ epResult' = Rejected("URI malformed")
            /\ epSent' = 0
       ELSE /\ epPc' = "inflight"
            /\ epConfig' = [method |-> endpoint.verb, headers |-> headers,
                            signal |-> FALSE]
            /\ epLog' = MethodLog(endpoint, auth) \cup RequestLog(headers)
            /\ epResult' = Pending
            /\ epSent' = 1
    /\ UNCHANGED notEp

\* Redispatches of a client that sends a failed request once more
RedispatchesOnFailure(outcome) ==
    IF outcome.kind = "response" /\ ValidateStatus(outcome.status) THEN 0
    ELSE 1

\* IndexerClient.request: how many further axios(axiosConfig) calls follow
\* the settled one; neither the try nor the catch block dispatches again,
\* and no endpoint method calls get/post/put/delete twice
Redispatches(outcome) == 0

\* the transport call settles: request() returns or throws and the method
\* returns response.data or throws
EndpointSettle(outcome) ==
    /\ epPc = "inflight"
    /\ epPc' = "done"
    /\ epOutcome' = outcome
    /\ epLog' = epLog \cup NetworkErrorLog(outcome)
                      \cup ReferralLog(epCall.endpoint, outcome)
    /\ epResult' = EndpointMethodResult(epCall.endpoint, outcome)
    /\ epSent' = epSent + Redispatches(outcome)
    /\ UNCHANGED <<epCall, epConfig, notEp>>

(***************************************************************************)
(* useIndexerMailWebhooks and useIndexerMailTemplates: one mounted hook,   *)
(* its operations and the client calls they await.                         *)
(***************************************************************************)
MhIds == {"id1", "id2"}

MhCallIds == 1 .. MaxOps

\* an operation of a hook: what it does with the response, and the message
\* it reports for a rejection that is not an Error
Operation(name, kind, failure) ==
    [name |-> name, kind |-> kind, failure |-> failure]

WebhookOperations ==
    {Operation("createWebhook", "create", "Failed to create webhook"),
     Operation("getWebhooks", "list", "Failed to get webhooks"),
     Operation("getWebhook", "get", "Failed to get webhook"),
     Operation("deleteWebhook", "delete", "Failed to delete webhook")}

TemplateOperations ==
    {Operation("createTemplate", "create", "Failed to create template"),
     Operation("getTemplates", "list", "Failed to get templates"),
     Operation("getTemplate", "get", "Failed to get template"),
     Operation("updateTemplate", "update", "Failed to update template"),
     Operation("deleteTemplate", "delete", "Failed to delete template")}

Operations(hook) ==
    IF hook = "webhooks" THEN WebhookOperations ELSE TemplateOperations

NoOperation == Operation(None, None, None)

\* what a promise rejects with: an Error with a message, or another value
Rejection(isError, message) == [isError |-> isError, message |-> message]

NoRejection == Rejection(FALSE, None)

\* how a client call settles: with a response that holds an item (the
\* webhook / data.template, or none), with no response object at all (the
\* absent body of a 2xx answer), or rejected with an Error or a string
ClientFulfilled(present, item) ==
    [state |-> "fulfilled", present |-> present, item |-> item,
     thrown |-> NoRejection]

ClientRejected(e) ==
    [state |-> "rejected", present |-> FALSE, item |-> None, thrown |-> e]

ClientPending ==
    [state |-> "pending", present |-> FALSE, item |-> None,
     thrown |-> NoRejection]

ClientOutcomes ==
    {ClientFulfilled(TRUE, i) : i \in MhIds \cup {None}}
    \cup {ClientFulfilled(FALSE, None)}
    \cup {ClientRejected(Rejection(TRUE, "boom")),
          ClientRejected(Rejection(FALSE, "String error"))}

\* the list state after setWebhooks(response) / setTemplates(response)
ListOf(outcome) ==
    IF outcome.present THEN "list of " \o outcome.item ELSE None

\* reading response.webhook / response.data of an absent response
TypeError == Rejection(TRUE, "Cannot read properties of undefined")

\* the try block reads a property of the response in create, get and update
ReadsResponse(op) == op.kind \in {"create", "get", "update"}

\* what the catch block of the operation receives, NoRejection when the try
\* block ends normally
Caught(op, outcome) ==
    IF outcome.state = "rejected" THEN outcome.thrown
    ELSE IF ~outcome.present /\ ReadsResponse(op) THEN TypeError
    ELSE NoRejection

\* ErrorMessage of a hook that reports its default message for every failure
ErrorMessageDefault(e, op) == op.failure

\* err instanceof Error ? err.message : 'Failed to ...'
ErrorMessage(e, op) == IF e.isError THEN e.message ELSE op.failure

\* the current item after the try block of the operation ran to its end;
\* captured is the `webhook` / `template` of the closure of deleteWebhook /
\* deleteTemplate (useCallback deps [client, webhook])
ItemAfter(hook, op, id, captured, outcome, item) ==
    IF op.kind \in {"create", "get", "update"}
    THEN IF hook = "webhooks" THEN outcome.item          \* setWebhook(response.webhook)
         ELSE IF outcome.item # None THEN outcome.item   \* if (response.data) setTemplate(...)
         ELSE item
    ELSE IF op.kind = "delete"
    THEN IF captured = id THEN None ELSE item
    ELSE item

NoMhCall ==
    [pc |-> "none", op |-> NoOperation, id |-> None, captured |-> None]

NoSettle ==
    [call |-> 0, op |-> NoOperation, id |-> None, outcome |-> ClientPending,
     state |-> "pending", thrown |-> NoRejection]

\* the hook after mount: useState(null), useState(false)
MhMounted ==
    /\ mhItems = None
    /\ mhItem = None
    /\ mhIsLoading = FALSE
    /\ mhError = None
    /\ mhCalls = [c \in MhCallIds |-> NoMhCall]
    /\ mhNext = 0
    /\ mhLast = NoSettle

\* an operation of the hook is called with an id (None for create and
\* list): setIsLoading(true), setError(null), and the client call is awaited.
\* The function called is the one of the last render, so the closure of a
\* delete holds the current item.
HookCall(op, id) ==
    /\ mhNext < MaxOps
    /\ op \in Operations(mhHook)
    /\ (id = None) <=> op.kind \in {"create", "list"}
    /\ mhNext' = mhNext + 1
    /\ mhIsLoading' = TRUE
    /\ mhError' = None
    /\ mhCalls' = [mhCalls EXCEPT ![mhNext + 1] =
                     [pc |-> "pending", op |-> op, id |-> id,
                      captured |-> mhItem]]
    /\ UNCHANGED <<mhHook, mhItems, mhItem, mhLast, notMh>>

\* the client call of an operation settles: the rest of the try block, the
\* catch block and the finally block run
HookSettle(c, outcome) ==
    LET call == mhCalls[c]
        e == Caught(call.op, outcome)
    IN
    /\ call.pc = "pending"
    /\ mhCalls' = [mhCalls EXCEPT ![c] = [NoMhCall EXCEPT !.pc = "done"]]
    /\ IF e = NoRejection
       THEN /\ mhItem' = ItemAfter(mhHook, call.op, call.id, call.captured,
                                   outcome, mhItem)
            /\ mhItems' = IF call.op.kind = "list" THEN ListOf(outcome)
                          ELSE mhItems
            /\ mhError' = mhError
            /\ mhLast' = [call |-> c, op |-> call.op, id |-> call.id,
                          outcome |-> outcome, state |-> "fulfilled",
                          thrown |-> NoRejection]
       ELSE /\ mhItem' = mhItem
            /\ mhItems' = mhItems
            /\ mhError' = ErrorMessage(e, call.op)
            /\ mhLast' = [call |-> c, op |-> call.op, id |-> call.id,
                          outcome |-> outcome, state |-> "rejected",
                          thrown |-> e]
    /\ mhIsLoading' = FALSE
    /\ UNCHANGED <<mhHook, mhNext, notMh>>

\* clearError()
HookClearError ==
    /\ mhError # None
    /\ mhError' = None
    /\ UNCHANGED <<mhHook, mhItems, mhItem, mhIsLoading, mhCalls, mhNext,
                   mhLast, notMh>>

\* reset()
HookReset ==
    /\ mhItems # None \/ mhItem # None \/ mhError # None \/ mhIsLoading
    /\ mhItems' = None
    /\ mhItem' = None
    /\ mhError' = None
    /\ mhIsLoading' = FALSE
    /\ UNCHANGED <<mhHook, mhCalls, mhNext, mhLast, notMh>>

(***************************************************************************)
(* Specifications.                                                         *)
(***************************************************************************)
\* one client executing requests one after the other
InitRequest ==
    /\ rqDev \in BOOLEAN
    /\ RqIdle
    /\ ptDev = FALSE /\ ptDevModeArg = FALSE /\ ptCtxDevMode = FALSE
    /\ PtMounted
    /\ rfDevMode = FALSE
    /\ RfEmpty
    /\ auAuth = NoAuth
    /\ AuIdle
    /\ EpIdle
    /\ mhHook = "webhooks"
    /\ MhMounted

NextRequest ==
    \/ \E m \in Methods, h \in CallerHeaderChoices, s \in BOOLEAN :
          RequestDispatch(m, h, s)
    \/ \E o \in TransportOutcomes : RequestSettle(o)
    \/ \E o \in AbortOutcomes : RequestAbort(o)

SpecRequest == InitRequest /\ [][NextRequest]_vars

\* one mounted useIndexerPoints hook, its renders and its calls; the dev
\* argument (the x-dev header of its client) stays as it was at mount
InitPoints ==
    /\ ptDev = FALSE
    /\ ptDevModeArg \in BOOLEAN
    /\ ptCtxDevMode \in BOOLEAN
    /\ PtMounted
    /\ rqDev = FALSE
    /\ RqIdle
    /\ rfDevMode = FALSE
    /\ RfEmpty
    /\ auAuth = NoAuth
    /\ AuIdle
    /\ EpIdle
    /\ mhHook = "webhooks"
    /\ MhMounted

NextPoints ==
    \/ \E devMode, ctxDevMode \in BOOLEAN : Render(ptDev, devMode, ctxDevMode)
    \/ CallGetPointsLeaderboard
    \/ CallGetPointsSiteStats
    \/ \E c \in CallIds, o \in PointsOutcomes : ClientSettles(c, o)
    \/ \E c \in CallIds : AbortTimerFires(c)
    \/ \E c \in CallIds : RejectTimerFires(c)
    \/ ClearError

SpecPoints == InitPoints /\ [][NextPoints]_vars

\* the same hook in an event loop that runs every timer that is due:
\* setTimeout callbacks fire, the transport need not answer
SpecPointsTimers ==
    /\ SpecPoints
    /\ \A c \in CallIds : /\ WF_vars(AbortTimerFires(c))
                          /\ WF_vars(RejectTimerFires(c))

\* one mounted useIndexerPoints hook with any dev and devMode arguments,
\* which keeps them for its lifetime
InitPointsFlags ==
    /\ ptDev \in BOOLEAN
    /\ ptDevModeArg \in BOOLEAN
    /\ ptCtxDevMode \in BOOLEAN
    /\ PtMounted
    /\ rqDev = FALSE
    /\ RqIdle
    /\ rfDevMode = FALSE
    /\ RfEmpty
    /\ auAuth = NoAuth
    /\ AuIdle
    /\ EpIdle
    /\ mhHook = "webhooks"
    /\ MhMounted

NextPointsFlags ==
    \/ CallGetPointsLeaderboard
    \/ CallGetPointsSiteStats
    \/ \E c \in CallIds, o \in PointsOutcomes : ClientSettles(c, o)
    \/ \E c \in CallIds : AbortTimerFires(c)
    \/ \E c \in CallIds : RejectTimerFires(c)
    \/ ClearError

SpecPointsFlags == InitPointsFlags /\ [][NextPointsFlags]_vars

\* the referral record, and an application that follows the documented flow
InitReferral ==
    /\ rfDevMode \in BOOLEAN
    /\ RfEmpty
    /\ rqDev = FALSE
    /\ RqIdle
    /\ ptDev = FALSE /\ ptDevModeArg = FALSE /\ ptCtxDevMode = FALSE
    /\ PtMounted
    /\ auAuth = NoAuth
    /\ AuIdle
    /\ EpIdle
    /\ mhHook = "webhooks"
    /\ MhMounted

NextReferral ==
    \/ \E code \in Codes : DetectReferral(code)
    \/ \E code \in Codes : ManualSet(code)
    \/ Peek
    \/ ConnectStart
    \/ \E a \in AttemptIds, o \in AccountsOutcomes : ConnectSettles(a, o)

SpecReferral == InitReferral /\ [][NextReferral]_vars

\* one call of a signature-protected endpoint method with any credential
InitAuth ==
    /\ auAuth \in Credentials
    /\ AuIdle
    /\ rqDev \in BOOLEAN
    /\ RqIdle
    /\ ptDev = FALSE /\ ptDevModeArg = FALSE /\ ptCtxDevMode = FALSE
    /\ PtMounted
    /\ rfDevMode = FALSE
    /\ RfEmpty
    /\ EpIdle
    /\ mhHook = "webhooks"
    /\ MhMounted

NextAuth ==
    \/ AuthCreateHeaders
    \/ AuthDispatch

SpecAuth == InitAuth /\ [][NextAuth]_vars

\* one client and the endpoint methods called on it
InitEndpoint ==
    /\ rqDev \in BOOLEAN
    /\ RqIdle
    /\ EpIdle
    /\ mhHook = "webhooks"
    /\ MhMounted
    /\ ptDev = FALSE /\ ptDevModeArg = FALSE /\ ptCtxDevMode = FALSE
    /\ PtMounted
    /\ rfDevMode = FALSE
    /\ RfEmpty
    /\ auAuth = NoAuth
    /\ AuIdle

NextEndpoint ==
    \/ \E e \in Endpoints, a \in EpCredentials \cup {NoAuth}, r \in ReferralArgs :
          EndpointCall(e, a, r)
    \/ \E o \in TransportOutcomes : EndpointSettle(o)

SpecEndpoint == InitEndpoint /\ [][NextEndpoint]_vars

\* one mounted webhooks or templates hook and the operations called on it
InitMailHook ==
    /\ mhHook \in {"webhooks", "templates"}
    /\ MhMounted
    /\ rqDev = FALSE
    /\ RqIdle
    /\ ptDev = FALSE /\ ptDevModeArg = FALSE /\ ptCtxDevMode = FALSE
    /\ PtMounted
    /\ rfDevMode = FALSE
    /\ RfEmpty
    /\ auAuth = NoAuth
    /\ AuIdle
    /\ EpIdle

NextMailHook ==
    \/ \E op \in WebhookOperations \cup TemplateOperations,
          id \in MhIds \cup {None} : HookCall(op, id)
    \/ \E c \in MhCallIds, o \in ClientOutcomes : HookSettle(c, o)
    \/ HookClearError
    \/ HookReset

SpecMailHook == InitMailHook /\ [][NextMailHook]_vars

(***************************************************************************)
(* Properties of the referral record and the wallet-connect flow.          *)
(***************************************************************************)
\* the getWalletAccounts calls that carried the code stored as number g and
\* that the backend answered with a 2xx response
SuccessfulCarriers(g) ==
    {a \in AttemptIds :
        /\ rfAttempts[a].pc = "done"
        /\ rfAttempts[a].xReferral # None
        /\ rfAttempts[a].gen = g
        /\ ValidateStatus(rfAttempts[a].status)}

\* C1: under the documented flow a stored referral code is carried (as
\* x-referral) by at most one getWalletAccounts call that the backend
\* answers with success
C1_CodeAppliedAtMostOnce ==
    \A g \in 1 .. MaxStores : Cardinality(SuccessfulCarriers(g)) <= 1

\* C2: the stored code changes only in a step that is a detection, a
\* setReferralCode or a clearReferralCode: no consumeReferralCode and no
\* settled getWalletAccounts call (failed or not) removes or changes it, and
\* every consumeReferralCode returns the code that is stored
C2_OnlyClearRemoves ==
    [][/\ rfStored' # rfStored => rfOp'.name \in {"detect", "set", "clear"}
       /\ (rfStored' = None /\ rfStored # None) => rfOp'.name = "clear"
       /\ rfOp'.name = "consume" => rfOp'.ret = rfStored']_vars

\* a code was consumed, its call failed, and it was consumed again
C2_Witness ==
    /\ rfStored \in Codes
    /\ rfOp.name = "consume" /\ rfOp.ret = rfStored
    /\ \E a \in AttemptIds :
          /\ rfAttempts[a].pc = "done"
          /\ rfAttempts[a].code = rfStored
          /\ rfAttempts[a].result.state = "rejected"

\* C3: consumeReferralCode() returns the stored code and changes neither the
\* stored record nor hasPendingCode; two consecutive calls return the same
C3_ConsumeIdempotent ==
    [][rfOp'.name = "consume" =>
         /\ rfOp'.ret = rfStored
         /\ rfStored' = rfStored
         /\ HasPendingCode' = HasPendingCode
         /\ rfOp.name = "consume" => rfOp'.ret = rfOp.ret]_vars

\* consumeReferralCode() returned a pending code with that code still stored
C3_Witness ==
    /\ rfOp.name = "consume"
    /\ rfOp.ret \in Codes
    /\ rfOp.before = rfOp.ret
    /\ rfStored = rfOp.ret

\* C4: clearReferralCode() leaves the record empty; while it is empty
\* hasPendingCode is false and consumeReferralCode() returns nothing; and it
\* stays empty until a code is detected or set
C4_ClearEmpties ==
    [][/\ rfOp'.name = "clear" => (rfStored' = None /\ ~HasPendingCode')
       /\ (rfStored = None /\ rfOp'.name = "consume")
            => (rfOp'.ret = None /\ ~HasPendingCode')
       /\ (rfStored = None /\ rfStored' # None)
            => rfOp'.name \in {"detect", "set"}]_vars

\* a stored code was cleared, and a later consumeReferralCode() found nothing
C4_Witness ==
    /\ \E a \in AttemptIds : rfAttempts[a].cleared
    /\ rfOp.name = "consume" /\ rfOp.ret = None
    /\ rfStored = None

\* C5: setReferralCode(B) stores B whatever was pending, and a
\* consumeReferralCode() that follows it returns B
C5_SetOverwrites ==
    [][/\ rfOp'.name = "set" => rfStored' = rfOp'.arg
       /\ (rfOp.name = "set" /\ rfOp'.name = "consume")
            => rfOp'.ret = rfOp.arg]_vars

\* setReferralCode(B) was called while another code A was pending
C5_Witness ==
    /\ rfOp.name = "set"
    /\ rfOp.before \in Codes
    /\ rfOp.arg # rfOp.before
    /\ rfStored = rfOp.arg

(***************************************************************************)
(* Properties of IndexerClient.request.                                    *)
(***************************************************************************)
\* C10: every envelope request() returns satisfies
\* ok = success = (200 <= status < 300)
C10_OkIsSuccessIsStatus2xx ==
    rqPc = "returned" =>
        /\ rqResult.envelope.ok = rqResult.envelope.success
        /\ rqResult.envelope.ok =
             (rqResult.envelope.status >= 200 /\ rqResult.envelope.status < 300)

\* an envelope of the error-with-response path
C10_Witness ==
    /\ rqPc = "returned"
    /\ rqResult.envelope.status = 404
    /\ ~rqResult.envelope.ok

\* C11: whenever the transport produced a response, whatever its status,
\* request() has returned (not thrown) an envelope that carries that status
\* and the response body as data, with ok false for a status outside 200..299
C11_ResponseAlwaysEnveloped ==
    rqOutcome.kind = "response" =>
        /\ rqPc = "returned"
        /\ rqResult.tag = "return"
        /\ rqResult.envelope.status = rqOutcome.status
        /\ rqResult.envelope.data = rqOutcome.body
        /\ ~ValidateStatus(rqOutcome.status) => ~rqResult.envelope.ok

\* a 500 response with an error body came back as an envelope
C11_Witness ==
    /\ rqOutcome.kind = "response"
    /\ rqOutcome.status = 500
    /\ rqPc = "returned"
    /\ rqResult.envelope.data = ErrBody

\* C12: whenever the transport failed without a response, request() has
\* thrown an Error whose message is "Indexer API request failed: " followed
\* by the transport's message, and it has returned no envelope
C12_TransportFailureThrows ==
    rqOutcome.kind = "noresponse" =>
        /\ rqPc = "thrown"
        /\ rqResult.tag = "throw"
        /\ rqResult.envelope = NoEnvelope
        /\ rqResult.message = "Indexer API request failed: " \o rqOutcome.message

\* a request that timed out has thrown
C12_Witness ==
    /\ rqOutcome.kind = "noresponse"
    /\ rqOutcome.message = "timeout of 30000ms exceeded"
    /\ rqPc = "thrown"

\* C19: every request a client sends carries x-dev: true iff the client was
\* constructed with dev = true, whatever the caller passed in options
C19_XDevUniform ==
    rqPc # "idle" => ((rqConfig.headers["x-dev"] = "true") <=> rqDev)

\* C20: a request whose caller-supplied signal was aborted in flight has
\* thrown an Error, has returned no envelope, and what it threw differs from
\* what request() throws or returns for every other transport outcome
C20_AbortIsDistinctFailure ==
    rqOutcome \in AbortOutcomes =>
        /\ rqConfig.signal
        /\ rqPc = "thrown"
        /\ rqResult.tag = "throw"
        /\ rqResult.envelope = NoEnvelope
        /\ \A o \in TransportOutcomes : Request(o) # rqResult

\* a request was aborted through the caller's signal
C20_Witness ==
    /\ rqOutcome \in AbortOutcomes
    /\ rqConfig.signal
    /\ rqPc = "thrown"
    /\ rqResult.message = "Indexer API request failed: canceled"

(***************************************************************************)
(* Properties of useIndexerPoints.                                         *)
(***************************************************************************)
Started(c) == ptCalls[c].pc # "none"

\* the hook promise of call c has not settled yet
Unsettled(c) == ptCalls[c].pc \in {"racing", "awaiting"}

\* C6: with fallback enabled (the resolved dev mode was true when the call
\* was made), a call whose client call resolved before the fallback timer
\* fired has returned exactly the client's value, and IndexerMockData was
\* never invoked for it
C6_OperationFirstReturnsItsValue ==
    \A c \in CallIds :
        (/\ Started(c)
         /\ ptCalls[c].resolvedDevMode
         /\ ptCalls[c].first = "client"
         /\ ptCalls[c].client.state = "fulfilled")
        => (/\ ptCalls[c].pc = "done"
            /\ ptCalls[c].result = ptCalls[c].client
            /\ ptCalls[c].settles = 1
            /\ ptCalls[c].mockCalls = 0)

\* a devMode call won by the client call, whose fallback timer fired later
C6_Witness ==
    \E c \in CallIds :
        /\ ptCalls[c].devMode /\ ptCalls[c].resolvedDevMode
        /\ ptCalls[c].first = "client"
        /\ ptCalls[c].client.state = "fulfilled"
        /\ ptCalls[c].rejectTimer = "fired"

\* C7: with fallback disabled (the resolved dev mode is false when the call
\* is made), when the client call rejects with e the hook function rejects
\* with the same e, no mock data is produced, and error becomes e's message
C7_NormalModeRejectionPropagates ==
    [][\A c \in CallIds :
        (/\ Started(c)
         /\ ~ptCalls[c].resolvedDevMode
         /\ ptCalls[c].client.state = "pending"
         /\ ptCalls'[c].client.state = "rejected")
        => (/\ ptCalls'[c].result = ptCalls'[c].client
            /\ ptCalls'[c].mockCalls = 0
            /\ ptError' = ptCalls'[c].client.message)]_vars

\* C8: with fallback enabled (the resolved dev mode is true when the call is
\* made), when the client call rejects or the fallback timer fires before
\* the call has settled, the hook function resolves with the value of
\* IndexerMockData and error is null afterwards
C8_DevModeFailureYieldsMock ==
    [][\A c \in CallIds :
        (/\ Unsettled(c)
         /\ ptCalls[c].resolvedDevMode
         /\ \/ /\ ptCalls[c].client.state = "pending"
               /\ ptCalls'[c].client.state = "rejected"
            \/ /\ ptCalls[c].rejectTimer = "armed"
               /\ ptCalls'[c].rejectTimer = "fired")
        => (/\ ptCalls'[c].result = Fulfilled(MockData(ptCalls[c].fn))
            /\ ptCalls'[c].settles = 1
            /\ ptError' = None)]_vars

\* C9: no call settles twice; a call whose fallback timer fired before its
\* client call settled has returned the mock value; and the step in which
\* the client call settles afterwards changes neither the returned value
\* nor error nor isLoading
C9_LateOutcomeDiscarded ==
    [][\A c \in CallIds :
        /\ ptCalls'[c].settles <= 1
        /\ ptCalls'[c].first = "timer"
             => /\ ptCalls'[c].result = Fulfilled(MockData(ptCalls'[c].fn))
                /\ ptCalls'[c].settles = 1
        /\ (/\ ptCalls[c].first = "timer"
            /\ ptCalls[c].client.state = "pending"
            /\ ptCalls'[c].client.state # "pending")
           => /\ ptCalls'[c].result = ptCalls[c].result
              /\ ptError' = ptError
              /\ ptIsLoading' = ptIsLoading]_vars

\* the timer won the race and the client call settled afterwards
C9_Witness ==
    \E c \in CallIds :
        /\ ptCalls[c].first = "timer"
        /\ ptCalls[c].client.state # "pending"
        /\ ptCalls[c].result = Fulfilled(MockData(ptCalls[c].fn))

(***************************************************************************)
(* Properties of createAuthHeaders.                                        *)
(***************************************************************************)
IsLineBreak(unit) == unit \in {CR, LF}

WellFormed(message) ==
    \A i \in 1 .. Len(message) :
        /\ message[i] = HiSurrogate =>
              (i < Len(message) /\ message[i + 1] = LoSurrogate)
        /\ message[i] = LoSurrogate => (i > 1 /\ message[i - 1] = HiSurrogate)

\* C16: the x-signature header built by createAuthHeaders, and the one the
\* request carries, spells the signature without its CR and LF units, the
\* other units in their order
C16_SignatureStripped ==
    auPc \in {"built", "sent"} =>
        /\ auHeaders["x-signature"] =
             Join(SelectSeq(auAuth.signature, LAMBDA u : ~IsLineBreak(u)))
        /\ auPc = "sent" => auConfig["x-signature"] = auHeaders["x-signature"]

\* the signature a, CR, LF gave the header "a"
C16_Witness ==
    /\ auPc = "sent"
    /\ auAuth.signature = <<"a", CR, LF>>
    /\ auConfig["x-signature"] = "a"

\* C17 as stated: for every message, once createAuthHeaders was evaluated
\* there is an x-message header, decoding it once gives the message, and the
\* request carries it unchanged
C17_EveryMessageRoundTrips ==
    auPc # "idle" =>
        /\ auPc # "threw"
        /\ DecodeURIComponent(MessageHeader(auAuth.message).value)
             = Value(auAuth.message)
        /\ auHeaders["x-message"] = Join(EncodeURIComponent(auAuth.message).value)
        /\ auPc = "sent" => auConfig["x-message"] = auHeaders["x-message"]

\* C17 amended: for every message without a lone surrogate the x-message
\* header is the message percent-encoded once (decoding it once gives the
\* message) and the request carries it unchanged; for a message with a lone
\* surrogate createAuthHeaders throws and no request is dispatched
C17_WellFormedMessageRoundTrips ==
    auPc # "idle" =>
        IF WellFormed(auAuth.message)
        THEN /\ auPc # "threw"
             /\ DecodeURIComponent(MessageHeader(auAuth.message).value)
                  = Value(auAuth.message)
             /\ auHeaders["x-message"] =
                  Join(EncodeURIComponent(auAuth.message).value)
             /\ auPc = "sent" => auConfig["x-message"] = auHeaders["x-message"]
        ELSE auPc = "threw" /\ auConfig = NoHeaders

\* a message with a percent sign and a two-byte character was sent as
\* %25%C3%A9
C17_Witness ==
    /\ auPc = "sent"
    /\ auAuth.message = <<"%", EAcute>>
    /\ auConfig["x-message"] = "%25%C3%A9"

(***************************************************************************)
(* Properties of the endpoint methods.                                     *)
(***************************************************************************)
\* the call got a response with a status outside 200..299
GotErrorStatus ==
    /\ epPc = "done"
    /\ epOutcome.kind = "response"
    /\ ~ValidateStatus(epOutcome.status)

\* what a method puts after its failure text when the body has no error
\* string
Fallbacks(endpoint, body, status) ==
    IF endpoint.name = "getReferralCode"
    THEN {body.message, JsonStringify(body), "HTTP " \o ToString(status)} \ {None}
    ELSE {"Unknown error"}

\* C13: an endpoint method whose request came back with ok = false has
\* thrown an Error and returned none of the response: the message is the
\* method's failure text followed by the error string of the body, or by a
\* fallback text when the body has none
C13_NotOkThrows ==
    GotErrorStatus =>
        /\ epResult.state = "rejected"
        /\ epResult.value = NoBody
        /\ IF epOutcome.body.present /\ epOutcome.body.error # None
           THEN epResult.message =
                  epCall.endpoint.failure \o ": " \o epOutcome.body.error
           ELSE epResult.message \in
                  {epCall.endpoint.failure \o ": " \o f :
                     f \in Fallbacks(epCall.endpoint, epOutcome.body,
                                     epOutcome.status)}

\* getDelegatedTo got a 404 with an error body and threw its error string
C13_Witness ==
    /\ GotErrorStatus
    /\ epCall.endpoint.name = "getDelegatedTo"
    /\ epOutcome.status = 404
    /\ epOutcome.body = ErrBody
    /\ epResult = Rejected("Failed to get delegation: boom")

\* C14: a call of an endpoint method that ended without an Error returned
\* the non-empty body of a 2xx response
C14_NoEmptySuccess ==
    (epPc = "done" /\ epResult.state = "fulfilled") =>
        /\ epOutcome.kind = "response"
        /\ ValidateStatus(epOutcome.status)
        /\ epResult.value.present

\* the signature, the signed message and the header values made of them
Secrets(auth) ==
    IF auth = NoAuth THEN {}
    ELSE {Join(auth.signature), Join(auth.message),
          Join(StripCRLF(auth.signature))}
         \cup (IF EncodeURIComponent(auth.message).threw THEN {}
               ELSE {Join(EncodeURIComponent(auth.message).value)})

\* C15: nothing a call writes to the console, and no Error it throws,
\* contains the signature or the signed message of its credential
C15_NoCredentialInDiagnostics ==
    /\ \A entry \in epLog :
          /\ entry.auth = NoAuth
          /\ entry.headers["x-signature"] = None
          /\ entry.headers["x-message"] = None
          /\ entry.text \notin Secrets(epCall.auth)
    /\ epResult.state = "rejected" => epResult.message \notin Secrets(epCall.auth)

\* C18: a dispatched request carries x-referral iff getWalletAccounts made
\* it and was given a non-empty referral code, the header is that code, and
\* createAuthHeaders does not produce it
C18_XReferralOnlyFromGetWalletAccounts ==
    epPc \in {"inflight", "done"} /\ epConfig # NoConfig =>
        /\ epConfig.headers["x-referral"] # None
             <=> (/\ epCall.endpoint.name = "getWalletAccounts"
                  /\ epCall.referralCode \notin {None, ""})
        /\ epConfig.headers["x-referral"] # None
             => epConfig.headers["x-referral"] = epCall.referralCode
        /\ epCall.endpoint.auth
             => CreateAuthHeaders(epCall.auth).headers["x-referral"] = None

\* getWalletAccounts was called with code A and its request carries it
C18_Witness ==
    /\ epPc = "inflight"
    /\ epCall.endpoint.name = "getWalletAccounts"
    /\ epCall.referralCode = "A"
    /\ epConfig.headers["x-referral"] = "A"
    /\ epConfig.headers["x-signature"] # None

Settles(c) == mhCalls[c].pc = "pending" /\ mhCalls'[c].pc = "done"

\* C22: when the client call of an operation of the webhooks or templates
\* hook rejects with e, the operation rejects with the same e, the hook's
\* error becomes e.message when e is an Error and the default message of
\* the operation otherwise, isLoading becomes false, and the current item
\* and the list stay as they were
C22_RejectionPropagates ==
    [][\A c \in MhCallIds :
         Settles(c) /\ mhLast'.outcome.state = "rejected" =>
            /\ mhLast'.call = c
            /\ mhLast'.state = "rejected"
            /\ mhLast'.thrown = mhLast'.outcome.thrown
            /\ mhError' = IF mhLast'.outcome.thrown.isError
                          THEN mhLast'.outcome.thrown.message
                          ELSE mhCalls[c].op.failure
            /\ mhIsLoading' = FALSE
            /\ mhItem' = mhItem
            /\ mhItems' = mhItems]_vars

\* createWebhook rejected with a string while a webhook and a list were
\* held: the default message is the error
C22_Witness ==
    /\ mhLast.op.name = "createWebhook"
    /\ mhLast.state = "rejected"
    /\ mhLast.thrown = Rejection(FALSE, "String error")
    /\ mhError = "Failed to create webhook"
    /\ ~mhIsLoading
    /\ mhItem # None

\* C23: when deleteWebhook / deleteTemplate for an id completes with
\* success, the current item is cleared if it has that id and is left as it
\* is otherwise, also when another operation completed while the delete
\* was in flight
C23_DeleteClearsCurrent ==
    [][\A c \in MhCallIds :
         (/\ Settles(c)
          /\ mhCalls[c].op.kind = "delete"
          /\ mhLast'.state = "fulfilled")
         => mhItem' = IF mhItem = mhCalls[c].id THEN None ELSE mhItem]_vars

\* C24: clearReferralCode() is reached in a wallet-connect attempt only
\* after its getWalletAccounts request carried the code and the backend
\* answered it with a 2xx response, whatever the devMode of the accounts
\* hook
C24_ClearOnlyAfterBackendSuccess ==
    \A a \in AttemptIds :
        rfAttempts[a].cleared =>
            /\ rfAttempts[a].code # None
            /\ rfAttempts[a].xReferral = rfAttempts[a].code
            /\ ValidateStatus(rfAttempts[a].status)

\* C27: the record holds one code or none, and detecting a referral
\* parameter while a code is still stored replaces the stored code with
\* the detected one
C27_SingleSlotDetectReplaces ==
    /\ rfStored \in Codes \cup {None}
    /\ rfOp.name = "detect" => rfStored = rfOp.arg

\* a parameter was detected while another code was stored
C27_Witness ==
    /\ rfOp.name = "detect"
    /\ rfOp.before \in Codes
    /\ rfOp.arg # rfOp.before
    /\ rfStored = rfOp.arg

(***************************************************************************)
(* Properties of the fallback race and the flags of useIndexerPoints.      *)
(***************************************************************************)
\* C25: a call made while the resolved dev mode is true eventually settles
\* with a value when the timers fire, even if its transport request never
\* settles, and isLoading is false in the state in which it settles
C25_DevModeCallSettles ==
    /\ \A c \in CallIds :
          (Started(c) /\ ptCalls[c].resolvedDevMode)
             ~> (ptCalls[c].pc = "done" /\ ptCalls[c].result.state = "fulfilled")
    /\ [][\A c \in CallIds :
            (Unsettled(c) /\ ptCalls'[c].pc = "done") => ~ptIsLoading']_vars

\* C26: once a call that raced the fallback timer has returned, no timer it
\* started is still pending, and its client call does not reject later
C26_LosingBranchAbandoned ==
    [][\A c \in CallIds :
         (ptCalls'[c].devMode /\ ptCalls'[c].pc = "done") =>
            /\ ptCalls'[c].abortTimer # "armed"
            /\ ptCalls'[c].rejectTimer # "armed"
            /\ ptCalls[c].pc = "done" =>
                  ~(/\ ptCalls[c].client.state = "pending"
                    /\ ptCalls'[c].client.state = "rejected")]_vars

\* the request of the hook's client carries the marker header x-dev: true
CarriedXDev == RequestHeaders(ptDev, NoHeaders)["x-dev"] = "true"

C29_LoadingWhileUnsettled ==
    (\E c \in CallIds : Unsettled(c)) => ptIsLoading

\* C30: after any renders both functions hold the currently resolved dev
\* mode, and a call of either whose client call fails falls back to mock
\* data iff the resolved dev mode was true when it was made
C30_SameFallbackPolicy ==
    [][/\ ptLeaderboardDevMode' = ResolvedDevMode(ptDevModeArg', ptCtxDevMode')
       /\ ptSiteStatsDevMode' = ResolvedDevMode(ptDevModeArg', ptCtxDevMode')
       /\ \A c \in CallIds :
            (/\ Unsettled(c)
             /\ ptCalls[c].client.state = "pending"
             /\ ptCalls'[c].client.state = "rejected")
            => (ptCalls'[c].mockCalls = 1 <=> ptCalls[c].resolvedDevMode)]_vars

====
